---- MODULE Spec2Model ----
(***************************************************************************)
(* The bingo session server of src/server/server.js as a state machine.    *)
(*                                                                         *)
(* One action per event the Node event loop can run: a new websocket       *)
(* connection, one action per branch of the ws.on("message") handler, the  *)
(* transport of a socket going down (readyState leaves OPEN) and the       *)
(* ws.on("close") handler.  Every handler runs to completion: an action is *)
(* the whole handler, with the sends it performs.  The frames a handler    *)
(* writes stay in `sent` until the turn of the event loop ends (Deliver).  *)
(*                                                                         *)
(* Not modelled: the HTTP routes (token exchange, static files), the       *)
(* timestamps createdAt/updatedAt, and game.numberPool / numbersCalled,    *)
(* which no handler reads (numbersCalled stays the empty array).           *)
(***************************************************************************)
EXTENDS Integers, Sequences, FiniteSets, TLC

\* ------------------------------------------------------------- bounds

\* Number of websocket connections accepted over a run.
NumConns == 3

\* The ghost counter of bingo announcements per room saturates here.
MaxBingoCount == 2

\* The ghost run of back-to-back joins is kept up to this length.
MaxJoinLog == 3

\* Number of modelled outcomes of the Math.random() stream.
NumSeeds == 2

\* Number of outcomes of the Math.random() stream the card generator is
\* run under on its own.
NumCardSeeds == 30

\* Number of joinGame calls of the page, each with one probe promise.
MaxProbes == 2

Conns == 1..NumConns

Seeds == 0..(NumSeeds - 1)

\* ---------------------------------------------------- JavaScript values

Undefined == "undefined"

Null == "null"

\* hostId: null, and ws.playerId before a join (player ids are the numbers
\* 1..NumConns, all truthy).
NoId == 0

\* The value games.get(gameId) has for a key that is not in the Map.
NoGame == [gameId |-> Undefined]

\* An absent gameId takes the destructuring default.
DefaultGameId == "default"

GameIdOf(g) == IF g = Undefined THEN DefaultGameId ELSE g

\* The keys the Map games can hold in a run of the model.
GameKeys == {DefaultGameId, "room1", ""}

\* JavaScript truthiness of the strings a message field can hold.
Truthy(v) == v \notin {Undefined, Null, ""}

NameOf(n) == IF n = Undefined THEN "Anonymous" ELSE n

ThemeOf(t) == IF t = Undefined THEN Null ELSE t

\* ------------------------------------------------------------- THEMES

Ds9Items ==
  << "Rule of acquisition",
     "Sexual tension between Odo and Quark",
     "Pretend to be nice to Cardassians",
     "Miles and Keiko disagree / argue",
     "Jake and Nog sit above promenade",
     "Odo shapeshifts",
     "Sisko misgenders Jadzia",
     "Gaslighting",
     "Morn!",
     "Flashing light",
     "Kira in just her tank top",
     "Bashir gets pushed against a wall",
     "Racism",
     "Odo accuses Quark",
     "Sisko sits on his little couch",
     "Odo is authoritarian",
     "Problem could be solved with CCTV",
     "Baseball mentioned / Baseball shown",
     "Prophets mentioned",
     "Wormhole gets used",
     "Odo solves the problem",
     "Dabo girl mentioned",
     "Quark moans",
     "Cardassian politics mentioned" >>

\* The properties Object.prototype gives the object literal THEMES.
PrototypeKeys == {"constructor", "toString", "valueOf", "hasOwnProperty", "__proto__"}

\* THEMES[key]: "theme" for an own entry, "inherited" for a member of
\* Object.prototype (truthy, without .items and .name), else undefined.
ThemeLookup(key) ==
  IF key = "ds9" THEN "theme"
  ELSE IF key \in PrototypeKeys THEN "inherited"
  ELSE Undefined

ThemeDisplayName(key) ==
  IF key = "ds9" THEN "Star Trek: Deep Space Nine" ELSE Undefined

\* ------------------------------------------------------ card generator

Size == 5

Rows == 0..(Size - 1)

FreeRow == 2

FreeCol == 2

\* The number 0 that marks the free cell (no theme item is a number).
FreeSentinel == "0:number"

Blank == ""

\* Math.floor(Math.random() * n) for the k-th call of a stream.
RandomIndex(seed, k, n) == (seed * (k + 1) + seed) % n

Swap(a, i, j) == [a EXCEPT ![i] = a[j], ![j] = a[i]]

\* shuffle: for (i = length-1; i > 0; i--) swap a[i], a[floor(random*(i+1))].
\* Sequences are 1-based: JavaScript index i is position i + 1.
RECURSIVE ShuffleFrom(_, _, _)
ShuffleFrom(a, i, seed) ==
  IF i <= 0 THEN a
  ELSE ShuffleFrom(Swap(a, i + 1, RandomIndex(seed, Len(a) - 1 - i, i + 1) + 1),
                   i - 1, seed)

shuffle(a, seed) == ShuffleFrom(a, Len(a) - 1, seed)

\* A loop that pops an item for the free cell too.
FillIndexCountsFree(r, c) == r * Size + c

\* Row-major position of a non-free cell among the 24 cells the loop fills.
FillIndex(r, c) ==
  LET k == r * Size + c
  IN  IF k > FreeRow * Size + FreeCol THEN k - 1 ELSE k

\* A generator that leaves the cells blank once the pool is empty.
generateCardNoRefill(themeItems, seed) ==
  IF themeItems # Undefined /\ Len(themeItems) > 0
  THEN LET pool == shuffle(themeItems, seed)
           n    == Len(pool)
       IN  [r \in Rows |-> [c \in Rows |->
             IF r = FreeRow /\ c = FreeCol THEN FreeSentinel
             ELSE IF FillIndex(r, c) < n THEN pool[n - FillIndex(r, c)] ELSE Blank]]
  ELSE [r \in Rows |-> [c \in Rows |->
         IF r = FreeRow /\ c = FreeCol THEN FreeSentinel ELSE Blank]]

\* generateCard: pool.pop() per cell in row-major order, then random
\* repeats of themeItems once the pool is empty; a blank card for a missing
\* or empty pool.
generateCard(themeItems, seed) ==
  IF themeItems # Undefined /\ Len(themeItems) > 0
  THEN LET pool == shuffle(themeItems, seed)
           n    == Len(pool)
       IN  [r \in Rows |-> [c \in Rows |->
             IF r = FreeRow /\ c = FreeCol THEN FreeSentinel
             ELSE LET k == FillIndex(r, c)
                  IN  IF k < n THEN pool[n - k]
                      ELSE themeItems[RandomIndex(seed, n - 1 + (k - n), Len(themeItems)) + 1]]]
  ELSE [r \in Rows |-> [c \in Rows |->
         IF r = FreeRow /\ c = FreeCol THEN FreeSentinel ELSE Blank]]

\* The cards generateCard deals from the one catalogued theme, per outcome
\* of the random stream.
Ds9Cards == [seed \in Seeds |-> generateCard(Ds9Items, seed)]

BlankCard == generateCard(Undefined, 0)

\* ---------------------------------------------------------- environment

\* A coordinate of a mark message as a JavaScript value.
Num(n) == [t |-> "number", n |-> n, whole |-> TRUE]

\* 1.5
Fraction == [t |-> "number", n |-> 1, whole |-> FALSE]

\* "1"
NumeralString == [t |-> "string", n |-> 1, whole |-> TRUE]

Absent == [t |-> "undefined", n |-> 0, whole |-> TRUE]

\* The two connections of the environments that open no more.
Pair == {1, 2}

\* What the clients of a run send.  A run of the model follows one of these
\* environments from its first state on:
\*   conns    the connections that are opened
\*   gameIds  the gameId fields of probe and join (Undefined: field absent)
\*   names    per connection, the name fields of its joins
\*   themes   the theme fields of join (Undefined: field absent)
\*   creates  per connection, the create fields of its joins
\*   seeds    the outcomes of Math.random() a join can meet
\*   marks    the mark messages <<r, c, marked>> sent at any time
\*   walk     whether clients also walk their card, marking its first
\*            unmarked cell in row-major order, one client at a time
\* "crowd" fills one room with every connection, "rooms" moves two
\* connections between three rooms (one of them under the empty gameId),
\* "themes" deals themed cards, "bingo" lets players complete their cards and
\* "marks" sends marks whose coordinates are off the grid.
Environments ==
  { [name    |-> "crowd",
     conns   |-> Conns,
     gameIds |-> {Undefined},
     names   |-> [c \in Conns |-> {Undefined}],
     themes  |-> {Undefined, "bogus"},
     creates |-> [c \in Conns |-> {Undefined}],
     seeds   |-> {0},
     marks   |-> {<<Num(0), Num(0), "true">>, <<Num(Size), Num(0), "true">>},
     walk    |-> FALSE],
    [name    |-> "rooms",
     conns   |-> Pair,
     gameIds |-> {Undefined, "room1", ""},
     names   |-> [c \in Conns |-> {Undefined}],
     themes  |-> {Undefined, "constructor"},
     creates |-> [c \in Conns |-> IF c = 1 THEN {Undefined} ELSE {"true"}],
     seeds   |-> {0},
     marks   |-> {<<Num(0), Num(0), "true">>, <<NumeralString, Num(0), "true">>},
     walk    |-> FALSE],
    [name    |-> "themes",
     conns   |-> Pair,
     gameIds |-> {"room1"},
     names   |-> [c \in Conns |-> {Undefined}],
     themes  |-> {Undefined, "ds9", "bogus", "constructor"},
     creates |-> [c \in Conns |-> {Undefined}],
     seeds   |-> Seeds,
     marks   |-> {<<Num(0), Num(0), "true">>},
     walk    |-> FALSE],
    [name    |-> "bingo",
     conns   |-> Pair,
     gameIds |-> {Undefined},
     names   |-> [c \in Conns |-> IF c = 1 THEN {Undefined} ELSE {"Alice"}],
     themes  |-> {Undefined},
     creates |-> [c \in Conns |-> {Undefined}],
     seeds   |-> {0},
     marks   |-> {<<Num(FreeRow), Num(FreeCol), "false">>,
                  <<Num(FreeRow), Num(FreeCol), "true">>,
                  <<Num(Size - 1), Num(Size - 1), "false">>},
     walk    |-> TRUE],
    [name    |-> "marks",
     conns   |-> Pair,
     gameIds |-> {Undefined},
     names   |-> [c \in Conns |-> {Undefined}],
     themes  |-> {Undefined},
     creates |-> [c \in Conns |-> {Undefined}],
     seeds   |-> {0},
     marks   |-> {<<Num(0), Num(0), "true">>,
                  <<Num(0), Num(0), Undefined>>,
                  <<Num(0), Num(Size), "true">>,
                  <<Num(0), Num(0 - 1), "true">>,
                  <<Num(0), Fraction, "true">>,
                  <<Num(0), Absent, "true">>,
                  <<Num(0 - 1), Num(0), "true">>,
                  <<Fraction, Num(0), "true">>},
     walk    |-> FALSE] }

\* ---------------------------------------------------------------- state

VARIABLES
  games,      \* the Map games: game key -> room, NoGame for an absent key
  ws,         \* per connection: transport state and ws.gameId / ws.playerId
  crashed,    \* a handler threw: the Node process is gone
  sent,       \* per connection: the frames the running handler wrote to it
  env,        \* the name of the environment this run follows
  turn,       \* ghost: the handler whose frames are in sent, or that threw
  joinSeen,   \* ghost: the game keys a join message has been processed for
  joinRun,    \* ghost: the run of back-to-back joins the server last processed
  bingoCount, \* ghost: per room, how many bingo announcements were broadcast
  gen,        \* one call of generateCard: its argument, random stream and result
  cws,        \* the page's WebSocket objects: readyState and onOpen callback
  page,       \* the page's variable ws: the socket connectWS created last
  timers,     \* the closed sockets whose reconnect timer is pending
  retryOf,    \* ghost: per closed socket, the socket its reconnect timer created
  promises,   \* per joinGame call: the state of the promise sendProbe returned
  pending,    \* pendingProbeResolve and pendingProbeTimer
  inbox       \* the game_exists replies on their way to the page

\* What no handler of the server touches.
aux == <<gen, cws, page, timers, retryOf, promises, pending, inbox>>

vars == <<turn, sent, ws, games, crashed, env, joinSeen, joinRun, bingoCount,
          gen, cws, page, timers, retryOf, promises, pending, inbox>>

\* An id generator whose ids collide.
wsIdCollides(c) == 1

\* ws.id = Math.random().toString(36).slice(2, 9): a fresh id per connection.
wsId(c) == c

NoneSent == [c \in Conns |-> <<>>]

\* No handler has frames in flight.
NoTurn == [type |-> "none", conn |-> 0, gameId |-> Undefined, host |-> NoId, arg |-> <<>>]

\* No run of joins: the last handler was not a join of a run.
NoRun == [gameId |-> Undefined, conns |-> <<>>]

\* generateCard has not been called on its own: card is the grid it starts
\* from.
NoGen == [pool |-> <<>>, isArray |-> TRUE, seed |-> 0, called |-> FALSE, card |-> BlankCard]

\* A slot no WebSocket object of the page fills yet.
NoSocket == [state |-> "none", onOpen |-> "none", probe |-> 0]

Probes == 1..MaxProbes

\* pendingProbeResolve = null, pendingProbeTimer = null.
NoPending == [resolve |-> 0, timer |-> 0]

\* The server after start-up: no room, no connection.
ServerBoot ==
  /\ games = [g \in GameKeys |-> NoGame]
  /\ ws = [c \in Conns |-> [state |-> "new", gameId |-> Undefined, playerId |-> NoId]]
  /\ crashed = FALSE
  /\ sent = NoneSent
  /\ turn = NoTurn
  /\ joinSeen = {}
  /\ joinRun = NoRun
  /\ bingoCount = [g \in GameKeys |-> 0]

\* No page of the client is modelled: the connections are driven directly.
NoPage ==
  /\ cws = [c \in Conns |-> NoSocket]
  /\ page = 0
  /\ timers = {}
  /\ retryOf = [c \in Conns |-> 0]
  /\ promises = [p \in Probes |-> "none"]
  /\ pending = NoPending
  /\ inbox = {}

Init ==
  /\ ServerBoot
  /\ env \in {e.name : e \in Environments}
  /\ gen = NoGen
  /\ NoPage

\* The environment of the run.
Env == CHOOSE e \in Environments : e.name = env

\* socket.readyState === socket.OPEN
IsOpen(c) == ws[c].state = "open"

\* The event loop is between two handlers and the process is alive.
Idle == ~crashed /\ sent = NoneSent

\* ------------------------------------------------------------ helpers

PlayerIds(game) == {game.players[i].id : i \in 1..Len(game.players)}

HasPlayer(game, pid) == pid \in PlayerIds(game)

\* game.players.get(pid), for a pid the Map holds.
GetPlayer(game, pid) ==
  game.players[CHOOSE i \in 1..Len(game.players) : game.players[i].id = pid]

\* Map.prototype.set: an existing key keeps its place in the iteration
\* order, a new key goes last.
MapSet(players, p) ==
  IF \E i \in 1..Len(players) : players[i].id = p.id
  THEN [i \in 1..Len(players) |-> IF players[i].id = p.id THEN p ELSE players[i]]
  ELSE Append(players, p)

\* Map.prototype.delete
MapDelete(players, pid) == SelectSeq(players, LAMBDA p : p.id # pid)

\* The object literal of getOrCreateGame.
NewGame(gameId) ==
  [gameId     |-> gameId,
   status     |-> "lobby",
   hostId     |-> NoId,
   themeName  |-> Undefined,
   themeItems |-> Undefined,
   players    |-> <<>>]

getOrCreateGame(gs, gameId) ==
  IF gs[gameId] = NoGame THEN [gs EXCEPT ![gameId] = NewGame(gameId)] ELSE gs

\* A lookup that takes a truthy create flag as an order to start afresh.
JoinLookupRecreates(gs, gameId, create) ==
  IF gs[gameId] = NoGame \/ Truthy(create)
  THEN [gs EXCEPT ![gameId] = NewGame(gameId)]
  ELSE gs

\* The join branch's own lookup: create the room only when the key is new.
\* The create flag of the message is destructured and never read.
JoinLookup(gs, gameId, create) ==
  IF gs[gameId] = NoGame THEN getOrCreateGame(gs, gameId) ELSE gs

serializePlayer(p) ==
  [id |-> p.id, name |-> p.name, card |-> p.card, marks |-> p.marks]

serializeGame(game) ==
  [gameId           |-> game.gameId,
   status           |-> game.status,
   hostId           |-> game.hostId,
   themeKey         |-> IF Truthy(game.themeName) THEN game.themeName ELSE Null,
   themeDisplayName |-> IF Truthy(game.themeName) /\ ThemeLookup(game.themeName) = "theme"
                        THEN ThemeDisplayName(game.themeName) ELSE Null,
   players          |-> [i \in 1..Len(game.players) |-> serializePlayer(game.players[i])],
   numbersCalled    |-> <<>>]

\* socket.send(payload) appended to what the handler has sent so far.
Send(out, c, msg) == [out EXCEPT ![c] = Append(@, msg)]

\* A recipient test that does not read the transport state.
ReceivesWhateverState(st, game, c) ==
  \E i \in 1..Len(game.players) : game.players[i].socket = c

\* p.socket && p.socket.readyState === p.socket.OPEN, with the transport
\* states st (the close handler runs with its own socket already closed).
Receives(st, game, c) ==
  (\E i \in 1..Len(game.players) : game.players[i].socket = c) /\ st[c].state = "open"

\* The fan-out loop shared by broadcastGame and the bingo announcement:
\* every player of the room whose socket is OPEN gets the payload.
FanOut(out, st, game, payload) ==
  [c \in Conns |-> IF Receives(st, game, c) THEN Append(out[c], payload) ELSE out[c]]

StateMsg(game) == [type |-> "state", state |-> serializeGame(game)]

broadcastGame(out, st, game) == FanOut(out, st, game, StateMsg(game))

ErrorMsg(message) == [type |-> "error", message |-> message]

\* An error written to every open connection.
sendErrorToAll(out, c, message) ==
  [d \in Conns |-> IF IsOpen(d) THEN Append(out[d], ErrorMsg(message)) ELSE out[d]]

sendError(out, c, message) ==
  IF IsOpen(c) THEN Send(out, c, ErrorMsg(message)) ELSE out

\* The rule of the classic game: some row is fully marked.
isCardCompleteRow(player) ==
  \E r \in Rows : \A c \in Rows :
    (r = FreeRow /\ c = FreeCol) \/ player.marks[r][c]

\* isCardComplete: every cell but the free one is marked.
isCardComplete(player) ==
  \A r \in Rows : \A c \in Rows :
    (r = FreeRow /\ c = FreeCol) \/ player.marks[r][c]

\* An association check that looks the room up before the binding.
BindingErrorRoomFirst(c) ==
  IF ~Truthy(ws[c].gameId) \/ games[ws[c].gameId] = NoGame THEN "game_not_found"
  ELSE IF ~HasPlayer(games[ws[c].gameId], ws[c].playerId) THEN "player_not_found"
  ELSE "ok"

\* Lines 358-364: what the association check answers for a connection.
BindingError(c) ==
  IF ~Truthy(ws[c].gameId) THEN "not_joined"
  ELSE IF games[ws[c].gameId] = NoGame THEN "game_not_found"
  ELSE IF ~HasPlayer(games[ws[c].gameId], ws[c].playerId) THEN "player_not_found"
  ELSE "ok"

\* The handler of connection c for a message of this type about room gameId
\* (Undefined: none), with the host the room had when the handler started.
Turn(type, c, gameId, arg) ==
  [type   |-> type,
   conn   |-> c,
   gameId |-> gameId,
   host   |-> IF Truthy(gameId) \/ gameId = ""
              THEN (IF games[gameId] = NoGame THEN NoId ELSE games[gameId].hostId)
              ELSE NoId,
   arg    |-> arg]

\* A handler that threw: the exception leaves the "message" listener
\* uncaught and the process ends.
Crash ==
  /\ crashed' = TRUE
  /\ sent' = NoneSent

\* The run of joins after a join of connection c for gameId.  A run starts
\* with the join that creates the room (fresh) and grows with each join for
\* that room that follows at once, up to the logged length.
ExtendRun(run, gameId, c, fresh) ==
  IF fresh THEN [gameId |-> gameId, conns |-> <<c>>]
  ELSE IF run.gameId = gameId /\ Len(run.conns) < MaxJoinLog
  THEN [run EXCEPT !.conns = Append(@, c)]
  ELSE NoRun

\* ------------------------------------------------------------- actions

\* wss.on("connection"): connections are accepted in the order 1, 2, ...
Connect(c) ==
  /\ Idle
  /\ joinRun' = NoRun
  /\ ws[c].state = "new"
  /\ \A d \in Conns : d < c => ws[d].state # "new"
  /\ ws' = [ws EXCEPT ![c].state = "open"]
  /\ UNCHANGED <<games, crashed, sent, env, turn, joinSeen, bingoCount>>

\* The transport goes down: readyState is no longer OPEN, the "close"
\* event has not been emitted yet.
Drop(c) ==
  /\ Idle
  /\ joinRun' = NoRun
  /\ IsOpen(c)
  /\ ws' = [ws EXCEPT ![c].state = "closing"]
  /\ UNCHANGED <<games, crashed, sent, env, turn, joinSeen, bingoCount>>

\* The turn of the event loop ends: the frames written in it are out.
Deliver ==
  /\ ~crashed
  /\ sent # NoneSent
  /\ sent' = NoneSent
  /\ turn' = NoTurn
  /\ UNCHANGED <<games, ws, crashed, env, joinSeen, joinRun, bingoCount>>

\* JSON.parse(raw) throws.
InvalidJson(c) ==
  /\ Idle
  /\ turn' = Turn("invalid_json", c, Undefined, <<>>)
  /\ joinRun' = NoRun
  /\ IsOpen(c)
  /\ sent' = sendError(NoneSent, c, "invalid_json")
  /\ UNCHANGED <<games, ws, crashed, env, joinSeen, bingoCount>>

\* raw is the JSON text null: const { type } = msg throws a TypeError.
NullEnvelope(c) ==
  /\ Idle
  /\ turn' = Turn("null", c, Undefined, <<>>)
  /\ joinRun' = NoRun
  /\ IsOpen(c)
  /\ Crash
  /\ UNCHANGED <<games, ws, env, joinSeen, bingoCount>>

\* A lookup that creates the room it misses, as the join branch's does.
ProbeLookupCreates(gs, gameId) == getOrCreateGame(gs, gameId)

\* The probe branch reads the registry with games.has / games.get.
ProbeLookup(gs, gameId) == gs

\* A reply that takes a room without players for no room.
ProbeReplyOccupied(gs, gameId) ==
  IF gs[gameId] # NoGame /\ Len(gs[gameId].players) > 0
  THEN [type |-> "game_exists", exists |-> TRUE, state |-> serializeGame(gs[gameId])]
  ELSE [type |-> "game_exists", exists |-> FALSE]

ProbeReply(gs, gameId) ==
  IF gs[gameId] # NoGame
  THEN [type |-> "game_exists", exists |-> TRUE, state |-> serializeGame(gs[gameId])]
  ELSE [type |-> "game_exists", exists |-> FALSE]

Probe(c, gameIdIn) ==
  /\ Idle
  /\ turn' = Turn("probe", c, GameIdOf(gameIdIn), <<>>)
  /\ joinRun' = NoRun
  /\ IsOpen(c)
  /\ LET gs1 == ProbeLookup(games, GameIdOf(gameIdIn))
     IN  /\ games' = gs1
         /\ sent' = Send(NoneSent, c, ProbeReply(gs1, GameIdOf(gameIdIn)))
  /\ UNCHANGED <<ws, crashed, env, joinSeen, bingoCount>>

\* theme && !game.themeName
ThemeApplies(game, theme) == Truthy(theme) /\ ~Truthy(game.themeName)

\* Lines 318-326.  THEMES[theme].items.slice() throws for a theme name that
\* THEMES only inherits: game.themeName is already assigned by then.
ThemeThrows(game, theme) ==
  ThemeApplies(game, theme) /\ ThemeLookup(theme) = "inherited"

ApplyTheme(game, theme) ==
  IF ThemeApplies(game, theme) /\ ThemeLookup(theme) # Undefined
  THEN [game EXCEPT !.themeName = theme,
                    !.themeItems = IF ThemeLookup(theme) = "theme" THEN Ds9Items ELSE Undefined]
  ELSE game

InitialMarks ==
  [r \in Rows |-> [c \in Rows |-> r = FreeRow /\ c = FreeCol]]

\* generateCard(game.themeItems): themeItems is undefined or the ds9 list.
DealCard(themeItems, seed) ==
  IF themeItems = Undefined THEN BlankCard ELSE Ds9Cards[seed]

\* Lines 329-338: the player object of a join.
NewPlayer(c, name, themeItems, seed) ==
  [id     |-> wsId(c),
   name   |-> name,
   socket |-> c,
   card   |-> DealCard(themeItems, seed),
   marks  |-> InitialMarks]

\* A registration that a room that has ended refuses.
RegisterPlayerInLobby(game, player) ==
  IF game.status # "lobby" THEN game
  ELSE LET g1 == [game EXCEPT !.players = MapSet(game.players, player)]
       IN  IF g1.hostId = NoId THEN [g1 EXCEPT !.hostId = player.id] ELSE g1

\* A registration that leaves the host as it is.
RegisterPlayerKeepsHost(game, player) ==
  [game EXCEPT !.players = MapSet(game.players, player)]

\* Lines 340-343: register the player, make it host of a room without one.
RegisterPlayer(game, player) ==
  LET g1 == [game EXCEPT !.players = MapSet(game.players, player)]
  IN  IF g1.hostId = NoId THEN [g1 EXCEPT !.hostId = player.id] ELSE g1

JoinedMsg(playerId, game) ==
  [type |-> "joined", playerId |-> playerId, state |-> serializeGame(game)]

\* What the join branch leaves behind: the registry, the associations, the
\* frames written and whether the handler threw.
JoinEffect(c, gameIdIn, nameIn, themeIn, createIn, seed) ==
  LET gameId == GameIdOf(gameIdIn)
      theme  == ThemeOf(themeIn)
      gs1    == JoinLookup(games, gameId, createIn)
  IN  IF ThemeThrows(gs1[gameId], theme)
      THEN [games   |-> [gs1 EXCEPT ![gameId] = ApplyTheme(@, theme)],
            ws      |-> ws,
            sent    |-> NoneSent,
            crashed |-> TRUE]
      ELSE LET game2  == ApplyTheme(gs1[gameId], theme)
               player == NewPlayer(c, NameOf(nameIn), game2.themeItems, seed)
               game3  == RegisterPlayer(game2, player)
           IN  [games   |-> [gs1 EXCEPT ![gameId] = game3],
                ws      |-> [ws EXCEPT ![c].playerId = player.id, ![c].gameId = gameId],
                sent    |-> broadcastGame(
                              Send(NoneSent, c, JoinedMsg(player.id, game3)), ws, game3),
                crashed |-> FALSE]

\* The join branch.
Join(c, gameIdIn, nameIn, themeIn, createIn, seed) ==
  /\ Idle
  /\ turn' = Turn("join", c, GameIdOf(gameIdIn), <<createIn>>)
  /\ IsOpen(c)
  /\ joinSeen' = joinSeen \cup {GameIdOf(gameIdIn)}
  /\ joinRun' = ExtendRun(joinRun, GameIdOf(gameIdIn), c, games[GameIdOf(gameIdIn)] = NoGame)
  /\ LET eff == JoinEffect(c, gameIdIn, nameIn, themeIn, createIn, seed)
     IN  /\ games' = eff.games
         /\ ws' = eff.ws
         /\ sent' = eff.sent
         /\ crashed' = eff.crashed
  /\ UNCHANGED <<env, bingoCount>>

\* marks[r] is a row of the grid (anything else reads undefined).
IsRowIndex(r) == r.t = "number" /\ r.whole /\ r.n \in Rows

\* !!marked
ToBoolean(v) == v \notin {"false", Undefined, Null, ""}

\* An assignment to grids whose rows are one shared array.
SetCellInEveryRow(marks, r, c, value) ==
  [q \in DOMAIN marks |-> IF c \in DOMAIN marks[q]
                          THEN [marks[q] EXCEPT ![c] = value]
                          ELSE (c :> value) @@ marks[q]]

\* An assignment that flips the cell.
SetCellToggles(marks, r, c, value) ==
  [marks EXCEPT ![r] = IF c \in DOMAIN marks[r]
                       THEN [marks[r] EXCEPT ![c] = ~@]
                       ELSE (c :> value) @@ marks[r]]

\* player.marks[r][c] = value: a key the row lacks is added to it.
SetCell(marks, r, c, value) ==
  [marks EXCEPT ![r] = IF c \in DOMAIN marks[r]
                       THEN [marks[r] EXCEPT ![c] = value]
                       ELSE (c :> value) @@ marks[r]]

UpdatePlayer(game, pid, p) ==
  [game EXCEPT !.players =
     [i \in 1..Len(game.players) |->
        IF game.players[i].id = pid THEN p ELSE game.players[i]]]

\* The mark branch, after the association check.
Mark(c, r, col, marked) ==
  /\ Idle
  /\ turn' = Turn("mark", c, ws[c].gameId, <<r, col, marked>>)
  /\ joinRun' = NoRun
  /\ IsOpen(c)
  /\ IF BindingError(c) # "ok"
     THEN /\ sent' = sendError(NoneSent, c, BindingError(c))
          /\ UNCHANGED <<games, ws, crashed, env, joinSeen, bingoCount>>
     ELSE IF r.t # "number" \/ col.t # "number"
     THEN /\ sent' = sendError(NoneSent, c, "invalid_mark")
          /\ UNCHANGED <<games, ws, crashed, env, joinSeen, bingoCount>>
     ELSE IF ~IsRowIndex(r)
     THEN \* marks[r] is undefined: the assignment throws a TypeError
          /\ Crash
          /\ UNCHANGED <<games, ws, env, joinSeen, bingoCount>>
     ELSE LET gameId == ws[c].gameId
              player == GetPlayer(games[gameId], ws[c].playerId)
              \* a fractional c names a property of the row, not an element
              p2     == [player EXCEPT !.marks =
                           IF col.whole THEN SetCell(@, r.n, col.n, ToBoolean(marked)) ELSE @]
              game2  == UpdatePlayer(games[gameId], player.id, p2)
          IN  /\ games' = [games EXCEPT ![gameId] = game2]
              /\ sent' = broadcastGame(NoneSent, ws, game2)
              /\ UNCHANGED <<ws, crashed, env, joinSeen, bingoCount>>

BingoMsg(player) == [type |-> "bingo", playerId |-> player.id, name |-> player.name]

\* game.status = "ended"
EndGame(game) == [game EXCEPT !.status = "ended"]

\* The frames of a valid request_bingo: the announcement, then the state.
BingoFrames(st, game, player) ==
  broadcastGame(FanOut(NoneSent, st, game, BingoMsg(player)), st, game)

\* A rejection that also broadcasts the room.
InvalidBingoFramesAndState(c, game) ==
  broadcastGame(sendError(NoneSent, c, "invalid_bingo"), ws, game)

\* The frames of an invalid request_bingo: the error, to the caller.
InvalidBingoFrames(c, game) == sendError(NoneSent, c, "invalid_bingo")

\* The request_bingo branch, after the association check.
RequestBingo(c) ==
  /\ Idle
  /\ turn' = Turn("request_bingo", c, ws[c].gameId, <<>>)
  /\ joinRun' = NoRun
  /\ IsOpen(c)
  /\ IF BindingError(c) # "ok"
     THEN /\ sent' = sendError(NoneSent, c, BindingError(c))
          /\ UNCHANGED <<games, ws, crashed, env, joinSeen, bingoCount>>
     ELSE LET gameId == ws[c].gameId
              player == GetPlayer(games[gameId], ws[c].playerId)
          IN  IF isCardComplete(player)
              THEN LET game2 == EndGame(games[gameId])
                   IN  /\ games' = [games EXCEPT ![gameId] = game2]
                       /\ sent' = BingoFrames(ws, game2, player)
                       /\ bingoCount' = [bingoCount EXCEPT ![gameId] =
                                           IF @ < MaxBingoCount THEN @ + 1 ELSE @]
                       /\ UNCHANGED <<ws, crashed, env, joinSeen>>
              ELSE /\ sent' = InvalidBingoFrames(c, games[gameId])
                   /\ UNCHANGED <<games, ws, crashed, env, joinSeen, bingoCount>>

\* Any other envelope: a type the server does not know, or JSON that is a
\* number, a string or an array (its type reads undefined).
UnknownType(c) ==
  /\ Idle
  /\ turn' = Turn("unknown", c, ws[c].gameId, <<>>)
  /\ joinRun' = NoRun
  /\ IsOpen(c)
  /\ sent' = sendError(NoneSent, c,
                IF BindingError(c) # "ok" THEN BindingError(c) ELSE "unknown_message_type")
  /\ UNCHANGED <<games, ws, crashed, env, joinSeen, bingoCount>>

\* A removal that elects nobody.
RemovePlayerOnly(game, pid) ==
  [game EXCEPT !.players = MapDelete(game.players, pid)]

\* A removal that reopens the room when its last player leaves.
RemovePlayerReopens(game, pid) ==
  LET rest == MapDelete(game.players, pid)
  IN  [game EXCEPT !.players = rest,
                   !.status = IF Len(rest) = 0 THEN "lobby" ELSE game.status,
                   !.hostId = IF game.hostId = pid
                              THEN (IF Len(rest) = 0 THEN NoId ELSE rest[1].id)
                              ELSE game.hostId]

\* Lines 405-410: remove the player, elect the first remaining player in
\* the Map's iteration order when the host left.
RemovePlayer(game, pid) ==
  LET rest == MapDelete(game.players, pid)
  IN  [game EXCEPT !.players = rest,
                   !.hostId = IF game.hostId = pid
                              THEN (IF Len(rest) = 0 THEN NoId ELSE rest[1].id)
                              ELSE game.hostId]

\* What the close handler leaves in the registry.
CloseGames(gs, gameId, pid) == [gs EXCEPT ![gameId] = RemovePlayer(@, pid)]

\* ws.on("close")
CloseHandler(c) ==
  /\ Idle
  /\ joinRun' = NoRun
  /\ ws[c].state = "closing"
  /\ ws' = [ws EXCEPT ![c].state = "closed"]
  /\ IF ~Truthy(ws[c].gameId) \/ games[ws[c].gameId] = NoGame
     THEN UNCHANGED <<games, crashed, sent, env, turn, joinSeen, bingoCount>>
     ELSE LET gameId == ws[c].gameId
              gs2    == CloseGames(games, gameId, ws[c].playerId)
          IN  /\ games' = gs2
              /\ sent' = broadcastGame(NoneSent, ws', gs2[gameId])
              /\ turn' = IF sent' = NoneSent THEN NoTurn
                          ELSE Turn("close", c, gameId, <<>>)
              /\ UNCHANGED <<crashed, env, joinSeen, bingoCount>>

\* ---------------------------------------------------- the clients' walk

NonFreeCells == {rc \in Rows \X Rows : rc # <<FreeRow, FreeCol>>}

MarkedCells(marks) == {rc \in NonFreeCells : marks[rc[1]][rc[2]]}

\* A grid that is neither untouched nor complete.
PartlyMarked(marks) == MarkedCells(marks) \notin {{}, NonFreeCells}

\* The first unmarked cell of a grid in row-major order.
NextCell(marks) ==
  CHOOSE rc \in NonFreeCells \ MarkedCells(marks) :
    \A other \in NonFreeCells \ MarkedCells(marks) :
      rc[1] * Size + rc[2] <= other[1] * Size + other[2]

\* The player of connection c marks the next cell of its walk; no other
\* player is midway through a walk.
WalkMark(c) ==
  /\ Env.walk
  /\ Idle
  /\ IsOpen(c)
  /\ BindingError(c) = "ok"
  /\ LET mine == GetPlayer(games[ws[c].gameId], ws[c].playerId)
     IN  /\ MarkedCells(mine.marks) # NonFreeCells
         /\ \A g \in GameKeys : games[g] # NoGame =>
              \A i \in 1..Len(games[g].players) :
                 games[g].players[i].id # mine.id => ~PartlyMarked(games[g].players[i].marks)
         /\ Mark(c, Num(NextCell(mine.marks)[1]), Num(NextCell(mine.marks)[2]), "true")

\* ------------------------------------------------------- specification

Next ==
  \/ \E c \in Env.conns : Connect(c) /\ UNCHANGED aux
  \/ \E c \in Env.conns : Drop(c) /\ UNCHANGED aux
  \/ \E c \in Env.conns : CloseHandler(c) /\ UNCHANGED aux
  \/ Deliver /\ UNCHANGED aux
  \/ \E c \in Env.conns : InvalidJson(c) /\ UNCHANGED aux
  \/ \E c \in Env.conns : NullEnvelope(c) /\ UNCHANGED aux
  \/ \E c \in Env.conns, g \in Env.gameIds : Probe(c, g) /\ UNCHANGED aux
  \/ \E c \in Env.conns : \E g \in Env.gameIds, n \in Env.names[c], t \in Env.themes,
        cr \in Env.creates[c], seed \in Env.seeds :
          Join(c, g, n, t, cr, seed) /\ UNCHANGED aux
  \/ \E c \in Env.conns, m \in Env.marks : Mark(c, m[1], m[2], m[3]) /\ UNCHANGED aux
  \/ \E c \in Env.conns : WalkMark(c) /\ UNCHANGED aux
  \/ \E c \in Env.conns : RequestBingo(c) /\ UNCHANGED aux
  \/ \E c \in Env.conns : UnknownType(c) /\ UNCHANGED aux

Spec == Init /\ [][Next]_vars

\* ---------------------------------------- the card generator on its own

CardSeeds == 0..(NumCardSeeds - 1)

\* A pool with one item more than a card has cells to fill.
LongPool == Append(Ds9Items, "Spare item")

\* Pools that run out before the card is full, one of them with an item
\* twice, and the empty pool.
ShortPools ==
  {SubSeq(Ds9Items, 1, n) : n \in {0, 1, 3, 13, 23}} \cup {<<"Morn!", "Racism", "Morn!">>}

\* The arrays generateCard is called with.
Pools == {Ds9Items, LongPool} \cup ShortPools

\* generateCard's argument: an array of Pools, or (isArray false) undefined.
CardInit ==
  /\ ServerBoot
  /\ env = "cards"
  /\ NoPage
  /\ gen \in {[pool |-> p, isArray |-> TRUE, seed |-> sd, called |-> FALSE,
                card |-> BlankCard] : p \in Pools, sd \in CardSeeds}
             \cup {[pool |-> <<>>, isArray |-> FALSE, seed |-> sd, called |-> FALSE,
                     card |-> BlankCard] : sd \in CardSeeds}

\* One call generateCard(pool) under the random stream of the seed.
Generate ==
  /\ ~gen.called
  /\ gen' = [gen EXCEPT !.called = TRUE,
                        !.card = generateCard(IF gen.isArray THEN gen.pool ELSE Undefined,
                                              gen.seed)]
  /\ UNCHANGED <<games, ws, crashed, sent, env, turn, joinSeen, joinRun, bingoCount,
                 cws, page, timers, retryOf, promises, pending, inbox>>

CardNext == Generate

CardSpec == CardInit /\ [][CardNext]_vars

\* ------------------------------------------------------ the client page

\* One page of the client against the server.  The page's sockets take the
\* connection slots in the order connectWS creates them.

\* getGameIdFromContext() without a channel id, the name field and the one
\* option of the theme select.
PageGameId == DefaultGameId

PageName == "ann"

PageTheme == "ds9"

\* The cards of the page's joins are dealt under the first random stream.
PageSeeds == {0}

\* The slots no new WebSocket(WS_URL) has taken.
Free == {c \in Conns : cws[c].state = "none"}

NewSocket == CHOOSE n \in Free : \A m \in Free : n <= m

\* The transport of socket c is gone, for the page or for the server.
Down(c) == cws[c].state = "closed" \/ ws[c].state \in {"closing", "closed"}

\* The sockets that are down and whose reconnect has not run yet.
Owed == {c \in Conns : Down(c) /\ retryOf[c] = 0}

\* The promises whose doProbe is the onOpen callback of socket c, which
\* may still open.
Carried(c) ==
  {p \in Probes : /\ cws[c].state = "connecting" /\ ~Down(c)
                   /\ cws[c].onOpen = "probe" /\ cws[c].probe = p}

\* The promises that can still be resolved: joinGame then sends its join,
\* which may need a socket.
Awaited ==
  {p \in Probes : promises[p] = "pending" /\ pending.resolve = p}
    \cup UNION {Carried(c) : c \in Conns}

\* This many slots are left over after every reconnect that is due and
\* every join that an awaited probe may still need a socket for.
Slots(n) == Cardinality(Free) >= Cardinality(Owed) + Cardinality(Awaited) + n

\* The transport of socket c may go down: a slot is left for its reconnect.
Spare(c) ==
  Cardinality(Free) >= Cardinality(Owed \cup {c}) + Cardinality(Awaited \ Carried(c))

\* readyState === WebSocket.OPEN for the page's variable ws, with the
\* transport still up.
PageOpen == page \in Conns /\ cws[page].state = "open" /\ IsOpen(page)

\* connectWS(onOpen): a new socket in the next slot, assigned to ws; the
\* callback is none, a join of sendJoin or the doProbe of a promise.
connectWS(sockets, onOpen, p) ==
  [sockets EXCEPT ![NewSocket] = [state |-> "connecting", onOpen |-> onOpen, probe |-> p]]

\* A reconnect timer that is never set.
setTimeoutDropped(waiting, c) == waiting

\* setTimeout(() => connectWS(), 1500) in the close listener of socket c.
setTimeout(waiting, c) == waiting \cup {c}

\* create: true of sendJoin's payload, absent without opts.create.
CreateOf(onOpen) == IF onOpen = "joinCreate" THEN "true" ELSE Undefined

\* The page has rendered a card: some socket of it was bound by a join.
CardShown == \E c \in Conns : ws[c].playerId # NoId

ClientInit ==
  /\ ServerBoot
  /\ env = "page"
  /\ gen = NoGen
  /\ cws = [c \in Conns |-> IF c = 1
                              THEN [state |-> "connecting", onOpen |-> "none", probe |-> 0]
                              ELSE NoSocket]
  /\ page = 1
  /\ timers = {}
  /\ retryOf = [c \in Conns |-> 0]
  /\ promises = [p \in Probes |-> "none"]
  /\ pending = NoPending
  /\ inbox = {}

\* wss.on("connection") for socket c of the page.
Accept(c) ==
  /\ Idle
  /\ cws[c].state = "connecting"
  /\ ws[c].state = "new"
  /\ ws' = [ws EXCEPT ![c].state = "open"]
  /\ joinRun' = NoRun
  /\ UNCHANGED <<games, crashed, sent, env, turn, joinSeen, bingoCount, aux>>

\* ws.send(payload) of a join through the variable ws, with the sockets as
\* they are when it runs: the server's join branch answers on an open
\* transport; send throws on a socket that is still connecting and drops
\* the frame on a closed one.
SendJoinFrame(sockets, onOpen) ==
  IF sockets[page].state = "open" /\ IsOpen(page)
  THEN \E seed \in PageSeeds :
         Join(page, PageGameId, PageName, PageTheme, CreateOf(onOpen), seed)
  ELSE UNCHANGED <<games, ws, crashed, sent, env, turn, joinSeen, joinRun, bingoCount>>

\* sendJoin(opts): the join goes out on an open ws, else a new socket is
\* created to carry it.
sendJoin(onOpen) ==
  IF cws[page].state = "open"
  THEN /\ SendJoinFrame(cws, onOpen)
       /\ UNCHANGED <<gen, cws, page, timers, retryOf>>
  ELSE /\ Free # {}
       /\ cws' = connectWS(cws, onOpen, 0)
       /\ page' = NewSocket
       /\ UNCHANGED <<games, ws, crashed, sent, env, turn, joinSeen, joinRun, bingoCount,
                      gen, timers, retryOf>>

\* The reply of the server's probe branch to a probe frame sent through
\* the variable ws, tagged with the promise whose doProbe sent it; nothing
\* when send throws (connecting) or the transport is gone.
ProbeFrame(sockets, p) ==
  IF sockets[page].state = "open" /\ IsOpen(page)
  THEN {[probe  |-> p,
         sock   |-> page,
         exists |-> ProbeReply(ProbeLookup(games, PageGameId), PageGameId).exists]}
  ELSE {}

\* doProbe of promise p: pendingProbeResolve = resolve, the timer is
\* cleared and set again, the probe frame is sent.
doProbe(p, sockets) ==
  /\ promises' = [promises EXCEPT ![p] = "pending"]
  /\ pending' = [resolve |-> p, timer |-> p]
  /\ inbox' = inbox \cup ProbeFrame(sockets, p)

\* The open listener of socket c runs the onOpen callback it was created
\* with.
OpenEvent(c) ==
  /\ cws[c].state = "connecting"
  /\ IsOpen(c)
  /\ cws' = [cws EXCEPT ![c].state = "open"]
  /\ UNCHANGED <<gen, page, timers, retryOf>>
  /\ IF cws[c].onOpen = "probe"
     THEN /\ doProbe(cws[c].probe, cws')
          /\ UNCHANGED <<games, ws, crashed, sent, env, turn, joinSeen, joinRun, bingoCount>>
     ELSE /\ UNCHANGED <<promises, pending, inbox>>
          /\ IF cws[c].onOpen = "none"
             THEN UNCHANGED <<games, ws, crashed, sent, env, turn, joinSeen, joinRun,
                              bingoCount>>
             ELSE SendJoinFrame(cws', cws[c].onOpen)

\* The close listener of socket c; the replies on their way to it are lost.
CloseListener(c) ==
  /\ cws' = [cws EXCEPT ![c].state = "closed"]
  /\ timers' = setTimeout(timers, c)
  /\ inbox' = {r \in inbox : r.sock # c}
  /\ UNCHANGED <<games, ws, crashed, sent, env, turn, joinSeen, joinRun, bingoCount,
                 gen, page, retryOf, promises, pending>>

\* The connection attempt of socket c fails: the server never sees it.
ConnectFails(c) ==
  /\ Spare(c)
  /\ cws[c].state = "connecting"
  /\ ws[c].state = "new"
  /\ CloseListener(c)

\* The close event of a socket whose transport went down.
CloseEvent(c) ==
  /\ cws[c].state \in {"connecting", "open"}
  /\ ws[c].state \in {"closing", "closed"}
  /\ CloseListener(c)

\* The timer of the close listener of socket c fires: connectWS().
ReconnectTimer(c) ==
  /\ c \in timers
  /\ Free # {}
  /\ timers' = timers \ {c}
  /\ cws' = connectWS(cws, "none", 0)
  /\ page' = NewSocket
  /\ retryOf' = [retryOf EXCEPT ![c] = NewSocket]
  /\ UNCHANGED <<games, ws, crashed, sent, env, turn, joinSeen, joinRun, bingoCount, gen,
                 promises, pending, inbox>>

\* joinGame up to its await: sendProbe(gameId) runs doProbe on an open ws,
\* else creates a socket whose open listener runs it.
joinGame(p) ==
  /\ promises[p] = "none"
  /\ \A q \in Probes : q < p => promises[q] # "none"
  /\ UNCHANGED <<games, ws, crashed, sent, env, turn, joinSeen, joinRun, bingoCount,
                 gen, timers, retryOf>>
  /\ IF cws[page].state = "open"
     THEN /\ Slots(1)
          /\ doProbe(p, cws)
          /\ UNCHANGED <<cws, page>>
     ELSE /\ Slots(2)
          /\ cws' = connectWS(cws, "probe", p)
          /\ page' = NewSocket
          /\ promises' = [promises EXCEPT ![p] = "connecting"]
          /\ UNCHANGED <<pending, inbox>>

\* resolve({ exists }) of promise p and joinGame after its await:
\* sendJoin() for a room that exists, sendJoin({ create: true }) else.
Resolve(p, exists) ==
  /\ promises' = [promises EXCEPT ![p] = IF exists THEN "exists" ELSE "absent"]
  /\ pending' = NoPending
  /\ sendJoin(IF exists THEN "join" ELSE "joinCreate")

\* The probe timer fires after the fixed wait.
ProbeTimeout ==
  /\ pending.timer # 0
  /\ inbox' = inbox
  /\ Resolve(pending.resolve, FALSE)

\* handleMessage for a game_exists frame that arrives on an open socket.
handleMessage(r) ==
  /\ r \in inbox
  /\ cws[r.sock].state = "open"
  /\ inbox' = inbox \ {r}
  /\ IF pending.resolve # 0
     THEN Resolve(pending.resolve, r.exists)
     ELSE UNCHANGED <<games, ws, crashed, sent, env, turn, joinSeen, joinRun, bingoCount,
                      gen, cws, page, timers, retryOf, promises, pending>>

\* toggleMarkUI(r, c, el) on the first cell of the rendered card.
toggleMarkUI(marked) ==
  /\ CardShown
  /\ PageOpen
  /\ Mark(page, Num(0), Num(0), marked)
  /\ UNCHANGED aux

callBingo ==
  /\ PageOpen
  /\ RequestBingo(page)
  /\ UNCHANGED aux

\* The turn of the server's event loop ends.
Flush == Deliver /\ UNCHANGED aux

ClientNext ==
  \/ \E c \in Conns : Accept(c)
  \/ \E c \in Conns : OpenEvent(c)
  \/ \E c \in Conns : Spare(c) /\ cws[c].state # "none" /\ Drop(c) /\ UNCHANGED aux
  \/ \E c \in Conns : CloseHandler(c) /\ UNCHANGED aux
  \/ Flush
  \/ \E c \in Conns : ConnectFails(c)
  \/ \E c \in Conns : CloseEvent(c)
  \/ \E c \in Conns : ReconnectTimer(c)
  \/ \E p \in Probes : joinGame(p)
  \/ ProbeTimeout
  \/ \E r \in inbox : handleMessage(r)
  \/ \E marked \in {"true", "false"} : toggleMarkUI(marked)
  \/ callBingo

\* The event loop of the page delivers the close event of a socket that is
\* down and runs a reconnect timer that is due.
ClientSpec ==
  /\ ClientInit
  /\ [][ClientNext]_vars
  /\ \A c \in Conns : WF_vars(CloseEvent(c))
  /\ \A c \in Conns : WF_vars(ReconnectTimer(c))

\* And the server ends its turn, and the probe timer fires whenever it is
\* set: the timer is due again and again until it has run.
ProbeSpec ==
  /\ ClientSpec
  /\ WF_vars(Flush)
  /\ SF_vars(ProbeTimeout)

\* ------------------------------------------------------------ properties

\* The frames in flight go to connection c and start with one of this type.
FirstFrame(out, c, type) == Len(out[c]) > 0 /\ out[c][1].type = type

\* C1: when the joins of two distinct connections for a gameId no join was
\* processed for before are handled back to back, the registry holds one
\* room for the gameId, both players are in its player map and its host is
\* the connection whose join was processed first.
C1_RacingJoinsShareOneRoom ==
  (joinRun.gameId # Undefined /\ Len(joinRun.conns) = 2
     /\ joinRun.conns[1] # joinRun.conns[2]) =>
    /\ games[joinRun.gameId] # NoGame
    /\ PlayerIds(games[joinRun.gameId]) = {wsId(joinRun.conns[1]), wsId(joinRun.conns[2])}
    /\ games[joinRun.gameId].hostId = wsId(joinRun.conns[1])

\* C2: a join for a gameId no join was processed for before succeeds: the
\* joiner is answered with a joined message, and the registry then holds a
\* room for the gameId in status lobby whose player map is exactly the
\* joiner and whose host is the joiner.
C2_JoinOfUnseenGameSucceeds ==
  [][\A c \in Conns :
       (turn'.type = "join" /\ turn'.conn = c /\ turn'.gameId \notin joinSeen) =>
         /\ ~crashed'
         /\ FirstFrame(sent', c, "joined")
         /\ games'[turn'.gameId] # NoGame
         /\ games'[turn'.gameId].status = "lobby"
         /\ PlayerIds(games'[turn'.gameId]) = {wsId(c)}
         /\ games'[turn'.gameId].hostId = wsId(c)]_vars

\* C3: a probe is read-only: the step that handles it leaves the registry,
\* every room and every connection's association as they were, and writes
\* one game_exists frame to the probing connection and nothing to any other;
\* a probe for a gameId without a room leaves it without one.
C3_ProbeIsReadOnly ==
  [][\A c \in Conns :
       (turn'.type = "probe" /\ turn'.conn = c) =>
         /\ games' = games
         /\ ws' = ws
         /\ joinSeen' = joinSeen
         /\ Len(sent'[c]) = 1 /\ FirstFrame(sent', c, "game_exists")
         /\ \A d \in Conns \ {c} : sent'[d] = <<>>]_vars

\* A connection bound to a room with players probed a gameId that has no
\* room: it was answered exists=false and the gameId still has no room.
C3_Witness ==
  \E c \in Conns :
    /\ turn.type = "probe" /\ turn.conn = c
    /\ BindingError(c) = "ok"
    /\ turn.gameId # ws[c].gameId
    /\ games[turn.gameId] = NoGame
    /\ sent[c] = <<[type |-> "game_exists", exists |-> FALSE]>>

\* C4: a probe for a gameId is answered exists=true exactly when a join for
\* the gameId was processed before it, whether or not the room still has
\* players; the snapshot of an exists=true answer is the room's, and lists
\* exactly the players in its player map.  The probing connection need not
\* have joined anything.
C4_ProbeAnswersWhetherJoinWasSeen ==
  \A c \in Conns :
    (turn.type = "probe" /\ turn.conn = c) =>
      /\ Len(sent[c]) = 1
      /\ sent[c][1].type = "game_exists"
      /\ sent[c][1].exists = (turn.gameId \in joinSeen)
      /\ sent[c][1].exists =>
           /\ sent[c][1].state.gameId = turn.gameId
           /\ Len(sent[c][1].state.players) = Len(games[turn.gameId].players)
           /\ \A i \in 1..Len(sent[c][1].state.players) :
                sent[c][1].state.players[i].id = games[turn.gameId].players[i].id

\* A connection that never joined probed a gameId whose room every player
\* has left: it was answered exists=true with an empty player list.
C4_Witness ==
  \E c \in Conns :
    /\ turn.type = "probe" /\ turn.conn = c
    /\ ws[c].gameId = Undefined
    /\ turn.gameId \in joinSeen
    /\ games[turn.gameId].players = <<>>
    /\ FirstFrame(sent, c, "game_exists")
    /\ sent[c][1].exists
    /\ sent[c][1].state.players = <<>>

\* The marks of the player connection c is bound to.
MarksOf(c) == GetPlayer(games[ws[c].gameId], ws[c].playerId).marks

\* Some frame in flight is a bingo announcement.
BingoInFlight(out) ==
  \E d \in Conns : \E i \in 1..Len(out[d]) : out[d][i].type = "bingo"

C6_BingoAnnouncedExactlyOnce ==
  [][\A c \in Conns :
       (turn'.type = "request_bingo" /\ turn'.conn = c /\ BingoInFlight(sent')) =>
         LET g == ws[c].gameId
         IN  /\ games'[g].status = "ended"
             /\ \A d \in Conns :
                  Receives(ws, games[g], d) =>
                    sent'[d] = << BingoMsg(GetPlayer(games[g], ws[c].playerId)),
                                  StateMsg(games'[g]) >>
             /\ bingoCount'[g] = 1]_vars

C8_NoBingoAfterEnded ==
  [][\A c \in Conns :
       (turn'.type = "request_bingo" /\ turn'.conn = c /\ BindingError(c) = "ok"
          /\ games[ws[c].gameId].status = "ended") =>
         ~BingoInFlight(sent')]_vars

\* C9: after N joins for one gameId processed one after the other with no
\* disconnect between them, the first of them creating the room, the room's
\* player map has N players and its host is the first joiner.
C9_SequentialJoinsAllRegistered ==
  joinRun.gameId # Undefined =>
    /\ games[joinRun.gameId] # NoGame
    /\ Len(games[joinRun.gameId].players) = Len(joinRun.conns)
    /\ games[joinRun.gameId].hostId = wsId(joinRun.conns[1])

\* C10: when the close handler runs for the connection that is the host of a
\* room, the room's host becomes a player still in its player map, or none
\* when the map is empty; the close of any other connection leaves the
\* room's host as it was.
C10_HostReplacedOnClose ==
  [][\A c \in Conns :
       (ws[c].state = "closing" /\ ws'[c].state = "closed") =>
         \A g \in GameKeys :
           games[g] # NoGame =>
             /\ games'[g] # NoGame
             /\ IF games[g].hostId = wsId(c)
                THEN IF games'[g].players = <<>>
                     THEN games'[g].hostId = NoId
                     ELSE games'[g].hostId \in PlayerIds(games'[g])
                ELSE games'[g].hostId = games[g].hostId]_vars

\* The host's connection closed with players left in the room: one of them
\* is the host now.
C10_Witness ==
  /\ turn.type = "close"
  /\ turn.host = wsId(turn.conn)
  /\ ws[turn.conn].state = "closed"
  /\ games[turn.gameId].hostId # turn.host
  /\ games[turn.gameId].hostId \in PlayerIds(games[turn.gameId])

\* Connection c has completed a join: it holds a player id and a gameId.
HasJoined(c) == ws[c].playerId # NoId

\* The close handler runs for connection c in this step.
Closes(c) == ws[c].state = "closing" /\ ws'[c].state = "closed"

\* C11: when the close handler runs for a connection that has joined, the
\* player it is bound to is removed from the player map of the room it is
\* bound to, the room stays in the registry, and one state frame showing
\* the room without the player goes to every open connection left in the
\* room and nothing goes to the closed connection.
C11_CloseRemovesBoundPlayer ==
  [][\A c \in Conns :
       (Closes(c) /\ HasJoined(c)) =>
         LET g == ws[c].gameId
         IN  /\ games'[g] # NoGame
             /\ ~HasPlayer(games'[g], ws[c].playerId)
             /\ sent'[c] = <<>>
             /\ \A d \in Conns \ {c} :
                  Receives(ws', games'[g], d) => sent'[d] = <<StateMsg(games'[g])>>]_vars

\* C12: a mark or request_bingo from a connection that has not completed a
\* join is answered with the one error not_joined to that connection; no
\* room, no association changes and nobody else gets a frame.
C12_UnjoinedIsRejected ==
  [][\A c \in Conns :
       (turn'.type \in {"mark", "request_bingo"} /\ turn'.conn = c /\ ~HasJoined(c)) =>
         /\ ~crashed'
         /\ games' = games
         /\ ws' = ws
         /\ sent' = [d \in Conns |-> IF d = c THEN <<ErrorMsg("not_joined")>> ELSE <<>>]]_vars

\* A connection that never joined sent a mark with a row off the grid while
\* another connection's player was in a room: it was answered not_joined.
C12_Witness ==
  \E c \in Conns :
    /\ turn.type = "mark" /\ turn.conn = c
    /\ ~HasJoined(c)
    /\ ~IsRowIndex(turn.arg[1])
    /\ sent[c] = <<ErrorMsg("not_joined")>>
    /\ \E d \in Conns \ {c} : BindingError(d) = "ok" /\ IsOpen(d) /\ sent[d] = <<>>

\* A coordinate of the 5x5 grid: an integer number in 0..4.
WellFormedCoord(v) == v.t = "number" /\ v.whole /\ v.n \in Rows

\* C13: a mark of a joined player whose r or c is not a well-formed
\* coordinate in 0..4 is answered with the one error invalid_mark to the
\* caller, leaves every mark grid as it was and sends nobody else a frame.
C13_MalformedMarkIsRejected ==
  [][\A c \in Conns :
       (turn'.type = "mark" /\ turn'.conn = c /\ BindingError(c) = "ok"
          /\ ~(WellFormedCoord(turn'.arg[1]) /\ WellFormedCoord(turn'.arg[2]))) =>
         /\ ~crashed'
         /\ games' = games
         /\ sent' = [d \in Conns |-> IF d = c THEN <<ErrorMsg("invalid_mark")>> ELSE <<>>]]_vars

\* C14: in every reachable state the free cell (2,2) of every player's mark
\* grid is true.
C14_FreeCellAlwaysMarked ==
  \A g \in GameKeys :
    games[g] # NoGame =>
      \A i \in 1..Len(games[g].players) : games[g].players[i].marks[FreeRow][FreeCol]

\* C15: no step changes the card stored under a player id that is in a
\* room's player map before and after the step.
C15_CardNeverChanges ==
  [][\A g \in GameKeys :
       (games[g] # NoGame /\ games'[g] # NoGame) =>
         \A pid \in PlayerIds(games[g]) \cap PlayerIds(games'[g]) :
           GetPlayer(games'[g], pid).card = GetPlayer(games[g], pid).card]_vars

\* The theme ids of the catalogue.
KnownThemes == {"ds9"}

\* The theme id of the room under game key g, Undefined without a room.
ThemeIdOf(gs, g) == IF gs[g] = NoGame THEN Undefined ELSE gs[g].themeName

\* C16: a room's theme id, once set, is never changed by any step; it is
\* set only by a join for the room, and only to a theme of the catalogue.
C16_ThemeAssignedOnce ==
  [][\A g \in GameKeys :
       /\ Truthy(ThemeIdOf(games, g)) => ThemeIdOf(games', g) = ThemeIdOf(games, g)
       /\ (~Truthy(ThemeIdOf(games, g)) /\ Truthy(ThemeIdOf(games', g))) =>
            /\ turn'.type = "join" /\ turn'.gameId = g
            /\ ThemeIdOf(games', g) \in KnownThemes]_vars

\* The error codes of the server.
ErrorCodes ==
  {"invalid_json", "not_joined", "game_not_found", "player_not_found",
   "invalid_mark", "invalid_bingo", "unknown_message_type"}

\* Some frame in flight is an error.
ErrorInFlight(out) ==
  \E d \in Conns : \E i \in 1..Len(out[d]) : out[d][i].type = "error"

\* C17: a request that is rejected with an error produces exactly one error
\* frame, with a code of the server, to the connection it came from and no
\* frame to any other; no room and no registry entry changes, and the
\* connection stays open with the binding it had.
C17_RejectionIsOneErrorToSender ==
  [][\A c \in Conns :
       (turn'.type # "none" /\ turn'.conn = c /\ ErrorInFlight(sent')) =>
         /\ \E m \in ErrorCodes :
              sent' = [d \in Conns |-> IF d = c THEN <<ErrorMsg(m)>> ELSE <<>>]
         /\ games' = games
         /\ ws' = ws
         /\ ws'[c].state = "open"
         /\ ~crashed']_vars

\* A joined connection sent a message of a type the server does not know
\* while another player's connection was open in its room: it alone was
\* written to, with unknown_message_type.
C17_Witness ==
  \E c \in Conns :
    /\ turn.type = "unknown" /\ turn.conn = c
    /\ BindingError(c) = "ok"
    /\ IsOpen(c)
    /\ sent[c] = <<ErrorMsg("unknown_message_type")>>
    /\ \E d \in Conns \ {c} : Receives(ws, games[ws[c].gameId], d) /\ sent[d] = <<>>

\* C18: no message puts the server into a failed state: every handler
\* returns normally.
C18_NoMessageFailsTheServer == ~crashed

\* C19: once a connection has joined, no step changes the gameId or the
\* player id it is bound to.
C19_BindingNeverChanges ==
  [][\A c \in Conns :
       HasJoined(c) =>
         /\ ws'[c].gameId = ws[c].gameId
         /\ ws'[c].playerId = ws[c].playerId]_vars

\* C20: a join that is answered writes to the joiner the joined frame, with
\* its player id and a snapshot that holds the new player, and no state
\* frame; the state frame of the join goes to every other open player of
\* the room.
C20_JoinedToJoinerStateToOthers ==
  [][\A c \in Conns :
       (turn'.type = "join" /\ turn'.conn = c /\ ~crashed') =>
         LET game == games'[turn'.gameId]
         IN  /\ HasPlayer(game, wsId(c))
             /\ sent'[c] = <<JoinedMsg(wsId(c), game)>>
             /\ \A d \in Conns \ {c} :
                  sent'[d] = IF Receives(ws, game, d) THEN <<StateMsg(game)>> ELSE <<>>]_vars

\* C21: when a connection that had joined a room has dropped and another
\* connection then joins that room, the player of the dropped connection is
\* in the room's player map after the join, under its old id and with the
\* marks it had.
C21_DroppedPlayerStaysInRoom ==
  [][\A d \in Conns :
       (turn'.type = "join" /\ turn'.conn = d /\ ~crashed') =>
         \A c \in Conns \ {d} :
           (HasJoined(c) /\ ws[c].gameId = turn'.gameId
              /\ ws[c].state \in {"closing", "closed"}) =>
             /\ HasPlayer(games'[turn'.gameId], wsId(c))
             /\ HasPlayer(games[turn'.gameId], wsId(c)) =>
                  GetPlayer(games'[turn'.gameId], wsId(c)).marks
                    = GetPlayer(games[turn'.gameId], wsId(c)).marks]_vars

\* C23: in every reachable state of every room, the host is none exactly
\* when the player map is empty, and otherwise is the id of a player in the
\* room's player map.
C23_HostIsAPlayerOrNone ==
  \A g \in GameKeys :
    games[g] # NoGame =>
      /\ (games[g].hostId = NoId) <=> (games[g].players = <<>>)
      /\ games[g].hostId # NoId => games[g].hostId \in PlayerIds(games[g])

\* A room has lost its first host to a close and is led by another player,
\* while another room that had a player is empty and without a host.
C23_Witness ==
  \E g, h \in GameKeys :
    /\ games[g] # NoGame /\ games[h] # NoGame
    /\ games[g].hostId # NoId
    /\ \E c \in Conns : ws[c].state = "closed" /\ ws[c].gameId = g
                          /\ wsId(c) < games[g].hostId
    /\ games[h].players = <<>> /\ games[h].hostId = NoId
    /\ \E c \in Conns : ws[c].state = "closed" /\ ws[c].gameId = h

\* The state frames among the frames written to one connection.
StateFrames(frames) == SelectSeq(frames, LAMBDA m : m.type = "state")

\* Connection d is the socket of a player of the room and its transport is open.
OpenPlayerOf(st, game, d) ==
  st[d].state = "open" /\ \E p \in {game.players[i] : i \in 1..Len(game.players)} : p.socket = d

\* The handler of this step is a join, a mark, a request_bingo or a close
\* that room g accepts: it changes the room, or it ends without an error.
AcceptedBy(g) ==
  /\ ~crashed'
  /\ \/ games'[g] # games[g]
     \/ /\ turn'.type \in {"join", "mark", "request_bingo", "close"}
        /\ turn'.gameId = g
        /\ ~ErrorInFlight(sent')

\* C24: a handler that accepts a mutation of a room (a join, a mark, a
\* successful request_bingo, a close) writes, before it returns, exactly one
\* state frame with the room's snapshot after the mutation to every player
\* of the room whose socket is open, and nothing to a socket that is not.
C24_MutationBroadcastsSnapshot ==
  [][\A g \in GameKeys :
       AcceptedBy(g) =>
         \A d \in Conns :
           IF OpenPlayerOf(ws', games'[g], d)
           THEN StateFrames(sent'[d]) = <<StateMsg(games'[g])>>
           ELSE sent'[d] = <<>>]_vars

\* A mark was accepted in a room where one player's transport is down and
\* another's is open: the open one got the state frame, the other nothing.
C24_Witness ==
  \E c, d, e \in Conns :
    /\ turn.type = "mark" /\ turn.conn = c /\ BindingError(c) = "ok"
    /\ d # c /\ e # c /\ d # e
    /\ OpenPlayerOf(ws, games[turn.gameId], d)
    /\ sent[d] = <<StateMsg(games[turn.gameId])>>
    /\ ws[e].state = "closing" /\ HasPlayer(games[turn.gameId], wsId(e))
    /\ sent[e] = <<>>

\* C25: the status of a room is monotonic: a room starts in lobby; it
\* changes to ended only in the handler of a request_bingo whose caller is
\* bound to the room with all 24 non-free cells marked; an ended room is
\* ended after every step.
C25_StatusIsMonotonic ==
  [][\A g \in GameKeys :
       /\ (games[g] = NoGame /\ games'[g] # NoGame) => games'[g].status = "lobby"
       /\ games[g] # NoGame =>
            /\ games'[g] # NoGame
            /\ games'[g].status \in {"lobby", "ended"}
            /\ games[g].status = "ended" => games'[g].status = "ended"
            /\ (games[g].status = "lobby" /\ games'[g].status = "ended") =>
                 \E c \in Conns :
                   /\ turn'.type = "request_bingo" /\ turn'.conn = c
                   /\ BindingError(c) = "ok" /\ ws[c].gameId = g
                   /\ MarkedCells(MarksOf(c)) = NonFreeCells]_vars

\* A room ended, every player left it, and a connection joined the empty
\* room: the room is still ended.
C25_Witness ==
  \E c \in Conns :
    /\ turn.type = "join" /\ turn.conn = c
    /\ turn.host = NoId
    /\ bingoCount[turn.gameId] > 0
    /\ games[turn.gameId].status = "ended"
    /\ PlayerIds(games[turn.gameId]) = {wsId(c)}

\* The mark of connection c in this step is accepted: c is bound to a
\* player, r and c are numbers and r is a row of the grid.
MarkAccepted(c) ==
  /\ turn'.type = "mark" /\ turn'.conn = c
  /\ BindingError(c) = "ok"
  /\ ~crashed'
  /\ ~ErrorInFlight(sent')

\* Every cell of the old grid but (r, col) is in the new grid with its value.
SameButCell(old, new, r, col) ==
  \A q \in DOMAIN old : \A k \in DOMAIN old[q] :
    (q # r \/ k # col) => (q \in DOMAIN new /\ k \in DOMAIN new[q] /\ new[q][k] = old[q][k])

\* C26: an accepted mark(r, c, marked) changes nothing but cell (r, c) of the
\* mark grid of the player the connection is bound to: the other cells of
\* that grid, the other players' grids, every card, name and socket, the
\* host, status, theme and player ids of every room and every connection's
\* binding are as before.
C26_MarkChangesOneCell ==
  [][\A c \in Conns :
       MarkAccepted(c) =>
         LET g   == ws[c].gameId
             pid == ws[c].playerId
         IN  /\ ws' = ws
             /\ \A h \in GameKeys \ {g} : games'[h] = games[h]
             /\ [games'[g] EXCEPT !.players = <<>>] = [games[g] EXCEPT !.players = <<>>]
             /\ Len(games'[g].players) = Len(games[g].players)
             /\ \A i \in 1..Len(games[g].players) :
                  IF games[g].players[i].id = pid
                  THEN /\ [games'[g].players[i] EXCEPT !.marks = <<>>]
                            = [games[g].players[i] EXCEPT !.marks = <<>>]
                       /\ SameButCell(games[g].players[i].marks, games'[g].players[i].marks,
                                      turn'.arg[1].n, turn'.arg[2].n)
                  ELSE games'[g].players[i] = games[g].players[i]]_vars

\* A player cleared its cell (0,0) in a room with another player whose
\* cell (0,0) is marked: the caller's cell is clear, the other's still set.
C26_Witness ==
  \E c, d \in Conns :
    /\ c # d
    /\ turn.type = "mark" /\ turn.conn = c /\ BindingError(c) = "ok"
    /\ turn.arg[1] = Num(0) /\ turn.arg[2] = Num(0) /\ ~ToBoolean(turn.arg[3])
    /\ ~MarksOf(c)[0][0]
    /\ BindingError(d) = "ok" /\ ws[d].gameId = ws[c].gameId
    /\ MarksOf(d)[0][0]
    /\ FirstFrame(sent, c, "state")

\* The boolean value of the marked field of a mark message: true for true,
\* false for false, null and an absent field.
BooleanValue(v) == v = "true"

\* C27: mark sets, it does not toggle: after an accepted mark(r, c, marked)
\* with r and c in 0..4, cell (r, c) of the caller's grid is the boolean
\* value of marked whatever it was before; and when the cell already has
\* that value, as after the same mark was processed just before, the mark
\* leaves every room exactly as it was.
C27_MarkSetsAndIsIdempotent ==
  [][\A c \in Conns :
       (MarkAccepted(c) /\ WellFormedCoord(turn'.arg[1]) /\ WellFormedCoord(turn'.arg[2])) =>
         LET r   == turn'.arg[1].n
             col == turn'.arg[2].n
             new == GetPlayer(games'[ws[c].gameId], ws[c].playerId).marks
         IN  /\ new[r][col] = BooleanValue(turn'.arg[3])
             /\ MarksOf(c)[r][col] = BooleanValue(turn'.arg[3]) => games' = games]_vars

\* A mark(2, 2, true) of a player whose 24 other cells are marked was
\* accepted: the free cell is true and the state was broadcast.
C27_Witness ==
  \E c \in Conns :
    /\ turn.type = "mark" /\ turn.conn = c /\ BindingError(c) = "ok"
    /\ turn.arg = <<Num(FreeRow), Num(FreeCol), "true">>
    /\ MarksOf(c)[FreeRow][FreeCol]
    /\ MarkedCells(MarksOf(c)) = NonFreeCells
    /\ FirstFrame(sent, c, "state")

\* Every open player of the room was written exactly one state frame, with
\* the room as it is after the step.
BroadcastAfter(g) ==
  \A d \in Conns :
    OpenPlayerOf(ws, games'[g], d) => StateFrames(sent'[d]) = <<StateMsg(games'[g])>>

\* C28: a room that has ended accepts joins and marks as a room in lobby
\* does: a join that is answered adds the joiner's player and answers
\* joined, an accepted mark with r and c in 0..4 sets the caller's cell;
\* each is followed by the state broadcast and leaves the status ended.
C28_EndedRoomAcceptsJoinsAndMarks ==
  [][\A c \in Conns :
       /\ (turn'.type = "join" /\ turn'.conn = c /\ ~crashed'
             /\ games[turn'.gameId] # NoGame /\ games[turn'.gameId].status = "ended") =>
            /\ HasPlayer(games'[turn'.gameId], wsId(c))
            /\ ws'[c].gameId = turn'.gameId
            /\ FirstFrame(sent', c, "joined")
            /\ games'[turn'.gameId].status = "ended"
            /\ BroadcastAfter(turn'.gameId)
       /\ (MarkAccepted(c) /\ WellFormedCoord(turn'.arg[1]) /\ WellFormedCoord(turn'.arg[2])
             /\ games[ws[c].gameId].status = "ended") =>
            /\ GetPlayer(games'[ws[c].gameId], ws[c].playerId).marks[turn'.arg[1].n][turn'.arg[2].n]
                 = BooleanValue(turn'.arg[3])
            /\ games'[ws[c].gameId].status = "ended"
            /\ BroadcastAfter(ws[c].gameId)]_vars

\* A connection joined a room that had ended and still held the winner:
\* both are players, both got the state, and the room is still ended.
C28_Witness ==
  \E c, d \in Conns :
    /\ c # d
    /\ turn.type = "join" /\ turn.conn = c
    /\ bingoCount[turn.gameId] > 0
    /\ games[turn.gameId].status = "ended"
    /\ PlayerIds(games[turn.gameId]) = {wsId(c), wsId(d)}
    /\ MarkedCells(MarksOf(d)) = NonFreeCells
    /\ MarkedCells(MarksOf(c)) = {}
    /\ StateFrames(sent[d]) = <<StateMsg(games[turn.gameId])>>
    /\ FirstFrame(sent, c, "joined")

\* C29: the create flag of a join has no effect: in every reachable state,
\* for every join message a connection can send, the registry, the
\* associations and the frames the join leaves with create true or false
\* are those it leaves with create absent.
C29_CreateFlagHasNoEffect ==
  Idle =>
    \A c \in Env.conns :
      IsOpen(c) =>
        \A g \in Env.gameIds, n \in Env.names[c], t \in Env.themes, seed \in Env.seeds :
          \A cr \in {"true", "false"} :
            JoinEffect(c, g, n, t, cr, seed) = JoinEffect(c, g, n, t, Undefined, seed)

\* A join with create true was processed for a room that already had a
\* host: the room has both players and the host it had.
C29_Witness ==
  \E c \in Conns :
    /\ turn.type = "join" /\ turn.conn = c
    /\ turn.arg = <<"true">>
    /\ turn.host # NoId /\ turn.host # wsId(c)
    /\ games[turn.gameId].hostId = turn.host
    /\ PlayerIds(games[turn.gameId]) = {turn.host, wsId(c)}
    /\ FirstFrame(sent, c, "joined")

\* The items of a pool, and the cells of a card but the free one.
Items(pool) == {pool[i] : i \in 1..Len(pool)}

Distinct(pool) == Cardinality(Items(pool)) = Len(pool)

OtherCells == (Rows \X Rows) \ {<<FreeRow, FreeCol>>}

\* C22: for a pool of at least 24 distinct items and every outcome of the
\* shuffle, generateCard returns a 5x5 grid whose cell (2,2) is the free
\* sentinel, which is no item of the pool, and whose 24 other cells hold
\* pairwise distinct items of the pool.
C22_CardOfDistinctPoolItems ==
  (gen.called /\ Distinct(gen.pool) /\ Len(gen.pool) >= Cardinality(OtherCells)) =>
    /\ DOMAIN gen.card = Rows
    /\ \A r \in Rows : DOMAIN gen.card[r] = Rows
    /\ gen.card[FreeRow][FreeCol] = FreeSentinel
    /\ FreeSentinel \notin Items(gen.pool)
    /\ \A rc \in OtherCells : gen.card[rc[1]][rc[2]] \in Items(gen.pool)
    /\ \A rc, sd \in OtherCells :
         rc # sd => gen.card[rc[1]][rc[2]] # gen.card[sd[1]][sd[2]]

\* A card was dealt from the pool of 25 items and the shuffle moved the
\* pool's last item off the first cell.
C22_Witness ==
  /\ gen.called
  /\ gen.pool = LongPool
  /\ gen.card[0][0] # LongPool[Len(LongPool)]

\* The server holds no binding for connection c.
Unbound(c) == ws[c].gameId = Undefined /\ ws[c].playerId = NoId

\* C30: every socket of the page whose transport goes down is followed by
\* a new connection attempt of the page, and so is the socket of that
\* attempt; the server holds the new connection unbound under an id of its
\* own: while no join of it is processed, it is a player of no room and its
\* mark and request_bingo messages get the one error not_joined and change
\* no room.
C30_ReconnectsUnbound ==
  /\ \A c \in Conns :
       Down(c) ~> (retryOf[c] \in Conns /\ retryOf[c] # c /\ cws[retryOf[c]].state # "none")
  /\ [](\A c \in Conns : Unbound(c) =>
          \A g \in GameKeys : games[g] # NoGame =>
            /\ ~HasPlayer(games[g], wsId(c))
            /\ \A i \in 1..Len(games[g].players) : games[g].players[i].socket # c)
  /\ [][\A c \in Conns :
          (Unbound(c) /\ turn'.conn = c /\ turn'.type \in {"mark", "request_bingo"}
             /\ turn' # turn) =>
            /\ sent' = [d \in Conns |-> IF d = c THEN <<ErrorMsg("not_joined")>> ELSE <<>>]
            /\ games' = games
            /\ Unbound(c)']_vars

\* The page was bound on its first socket, that socket closed, the timer
\* created the next one, and a mark sent on it before any join is answered
\* with not_joined.
C30_Witness ==
  /\ ws[1].playerId # NoId
  /\ retryOf[1] \in Conns
  /\ turn.type = "mark"
  /\ turn.conn = retryOf[1]
  /\ Unbound(retryOf[1])
  /\ sent[retryOf[1]] = <<ErrorMsg("not_joined")>>

\* How often item x is in the pool, and in the cells of the card that are
\* filled first (k cells in row-major order, the free cell not counted).
CountInPool(pool, x) == Cardinality({i \in 1..Len(pool) : pool[i] = x})

FirstCells(k) == {rc \in OtherCells : FillIndex(rc[1], rc[2]) < k}

CountInCells(card, cells, x) == Cardinality({rc \in cells : card[rc[1]][rc[2]] = x})

\* C33: for a non-empty pool of fewer than 24 items, the cells filled first
\* in row-major order hold every pool item exactly as often as the pool
\* does, and every other non-free cell holds some item of the pool; for an
\* empty or missing pool every non-free cell is the blank placeholder; in
\* both cases the result is a 5x5 grid whose cell (2,2) is the free
\* sentinel.
C33_ShortPoolIsRefilled ==
  (gen.called /\ Len(gen.pool) < Cardinality(OtherCells)) =>
    /\ DOMAIN gen.card = Rows
    /\ \A r \in Rows : DOMAIN gen.card[r] = Rows
    /\ gen.card[FreeRow][FreeCol] = FreeSentinel
    /\ IF gen.isArray /\ Len(gen.pool) > 0
       THEN /\ \A x \in Items(gen.pool) :
                 CountInCells(gen.card, FirstCells(Len(gen.pool)), x) = CountInPool(gen.pool, x)
            /\ \A rc \in OtherCells : gen.card[rc[1]][rc[2]] \in Items(gen.pool)
       ELSE \A rc \in OtherCells : gen.card[rc[1]][rc[2]] = Blank

\* A card was dealt from the pool of 13 items: the pool ran out right
\* after the free cell and the last cell repeats an item.
C33_Witness ==
  /\ gen.called
  /\ Len(gen.pool) = 13
  /\ gen.card[4][4] \in Items(gen.pool)
  /\ CountInCells(gen.card, OtherCells, gen.card[4][4]) > 1

\* Some frame in flight is the error with this code.
ErrorSent(code) ==
  \E d \in Conns : \E i \in 1..Len(sent[d]) : sent[d][i] = ErrorMsg(code)

\* C34: every open connection that holds a player id is bound to a room of
\* the registry whose player map holds that id with the connection as its
\* socket, and no frame is the error game_not_found or player_not_found.
C34_DefensiveErrorsUnreachable ==
  /\ \A c \in Conns :
       (IsOpen(c) /\ ws[c].playerId # NoId) =>
         /\ ws[c].gameId \in GameKeys
         /\ games[ws[c].gameId] # NoGame
         /\ HasPlayer(games[ws[c].gameId], ws[c].playerId)
         /\ GetPlayer(games[ws[c].gameId], ws[c].playerId).socket = c
  /\ ~ErrorSent("game_not_found")
  /\ ~ErrorSent("player_not_found")

\* The association check passes for a mark of a connection that moved to
\* its room from another one, after a player of its room was removed by a
\* close.
C34_Witness ==
  /\ turn.type = "mark"
  /\ IsOpen(turn.conn)
  /\ FirstFrame(sent, turn.conn, "state")
  /\ \E g \in GameKeys \ {ws[turn.conn].gameId} :
       games[g] # NoGame /\ HasPlayer(games[g], ws[turn.conn].playerId)
  /\ \E d \in Conns \ {turn.conn} :
       ws[d].state = "closed" /\ ws[d].gameId = ws[turn.conn].gameId

\* C35: once the close handler of a connection has run, no room of the
\* registry holds a player whose socket is that connection and no room has
\* that connection's player id as its host.
C35_ClosedConnectionLeavesNoTrace ==
  \A c \in Conns :
    ws[c].state = "closed" =>
      \A g \in GameKeys :
        games[g] # NoGame =>
          /\ \A i \in 1..Len(games[g].players) : games[g].players[i].socket # c
          /\ ws[c].playerId # NoId => games[g].hostId # ws[c].playerId

\* C36: a state or bingo frame goes only to connections bound to the room
\* the handler that wrote it is about: no connection that is unbound or
\* bound to another room gets one.
C36_FanOutStaysInRoom ==
  \A d \in Conns :
    \A i \in 1..Len(sent[d]) :
      sent[d][i].type \in {"state", "bingo"} => ws[d].gameId = turn.gameId

\* The promise of joinGame call p is resolved.
Resolved(p) == promises[p] \in {"exists", "absent"}

\* handleMessage runs for reply r in this step.
Handled(r) == r \in inbox /\ r \notin inbox' /\ cws[r.sock].state = "open"

\* C31: a probe promise is resolved at most once; it is resolved either by
\* the timer its doProbe set, with exists = false, after which the join
\* goes out with create = true, or by the reply to its own probe frame,
\* with that reply's exists value; a reply to a probe whose promise is
\* resolved already is ignored.
C31_ProbeResolvedByItsReplyOrTimeout ==
  [][/\ \A p \in Probes :
          /\ Resolved(p) => promises'[p] = promises[p]
          /\ (~Resolved(p) /\ Resolved(p)') =>
                \/ /\ inbox' = inbox
                   /\ pending.timer = p
                   /\ promises'[p] = "absent"
                   /\ \/ turn'.type = "join" /\ turn'.arg = <<"true">>
                      \/ cws'[page'].onOpen = "joinCreate"
                      \/ ~IsOpen(page)
                \/ \E r \in inbox :
                     /\ Handled(r)
                     /\ r.probe = p
                     /\ promises'[p] = IF r.exists THEN "exists" ELSE "absent"
     /\ \A r \in inbox :
          (Handled(r) /\ Resolved(r.probe)) => promises' = promises]_vars

\* C32: at any time at most one socket of the page is connecting or open.
C32_OneSocketPerPage ==
  Cardinality({c \in Conns : cws[c].state \in {"connecting", "open"}}) <= 1

\* C37: every promise sendProbe returned is eventually resolved.
C37_EveryProbeResolves ==
  \A p \in Probes : (promises[p] \in {"connecting", "pending"}) ~> Resolved(p)

====
